---------------------------- MODULE Spec2Model ----------------------------
(***************************************************************************)
(* Model of the WRF grid reconstruction pipeline (wrf_reproduce_grid.py)   *)
(* and of the weighted NaN-ignoring mean (weighted_nanmean.py).            *)
(*                                                                         *)
(* Numbers.  make_grid_coordinate produces half-integer offsets for an     *)
(* even point count, so every coordinate of this model is stored DOUBLED:  *)
(* the integer v stands for the real number v/2.  Index offsets ix are     *)
(* doubled, spacings dx, dy are whole numbers, and an axis value ix*dx is  *)
(* therefore the doubled coordinate.                                       *)
(*                                                                         *)
(* Python values whose type matters (None, dict, tuple, Proj) are records  *)
(* tagged with a pytype field.                                             *)
(***************************************************************************)
EXTENDS Integers, Sequences, FiniteSets

VARIABLES
    \* ---- make_grid_coordinate called on its own (SpecAxis)
    axis_pc, arg_n, arg_d, axis_out,
    \* ---- reproduce_wrf_grid (Spec)
    pc, wrfout, proj_wrf_lcc, proj_wgs84, proj_sll, grid_params_wrf,
    coords_peter, grids_peter, grids_wrfout, grid_i, report, error, result,
    \* ---- weighted_nanmean (SpecMean)
    mean_pc, mean_x, mean_weights, mean_axis, mean_result

axisVars == <<axis_pc, arg_n, arg_d, axis_out>>
pipeVars == <<pc, wrfout, proj_wrf_lcc, proj_wgs84, proj_sll, grid_params_wrf,
              coords_peter, grids_peter, grids_wrfout, grid_i, report, error, result>>
meanVars == <<mean_pc, mean_x, mean_weights, mean_axis, mean_result>>
vars == <<axisVars, pipeVars, meanVars>>

---------------------------------------------------------------------------
(* Bounds of the model *)

\* largest point count handed to make_grid_coordinate on its own
MaxN == 10
\* spacings handed to make_grid_coordinate on its own: 500, 1000, ..., 500*MaxSpacing
MaxSpacing == 6
\* largest nx, ny of a dataset of the pipeline
MaxGrid == 4
\* dataset spacings DX, DY: 1000, 2000, ..., 1000*MaxGridSpacing
MaxGridSpacing == 2
\* MAP_PROJ codes of a dataset: 0..MaxMapProj (WRF uses 0..6)
MaxMapProj == 6
\* per-cell offset between the dataset's lat/lon arrays and the exact grid
MaxMismatch == 2
\* largest extent of an array dimension handed to weighted_nanmean
MaxDim == 2
\* largest weight handed to weighted_nanmean
MaxWeight == 2

Spacings == {500 * k : k \in 1..MaxSpacing}
GridSpacings == {1000 * k : k \in 1..MaxGridSpacing}

---------------------------------------------------------------------------
(* Python values *)

PyNone == [pytype |-> "NoneType"]
PyDict(r) == [pytype |-> "dict", items |-> r]
PyTuple(s) == [pytype |-> "tuple", items |-> s]

---------------------------------------------------------------------------
(* numpy helpers *)

\* ceil(a / b) for b > 0
CeilDiv(a, b) == -((-a) \div b)

\* np.arange(start, stop, step) on doubled numbers: ceil((stop-start)/step)
\* elements start, start+step, ...
arange(start, stop, step) ==
    LET len == IF stop > start THEN CeilDiv(stop - start, step) ELSE 0
    IN  [i \in 1..len |-> start + (i - 1) * step]

\* np.meshgrid(x, y): the list [X, Y], both of shape (len(y), len(x)),
\* X[r][c] = x[c] and Y[r][c] = y[r]
meshgrid(x, y) ==
    << [r \in 1..Len(y) |-> x],
       [r \in 1..Len(y) |-> [c \in 1..Len(x) |-> y[r]]] >>

\* ndarray.shape of a 2D array stored as a sequence of rows
shape(A) == << Len(A), IF Len(A) = 0 THEN 0 ELSE Len(A[1]) >>

---------------------------------------------------------------------------
(* reconstruct_grid.make_grid_coordinate *)

\* a slip in the odd branch: the stop of the range misses its +1
make_grid_coordinate_ShortOdd(nx, dx) ==
    LET ix == IF nx % 2 = 1
              THEN arange(2 * (-(nx \div 2)), 2 * (nx \div 2), 2)
              ELSE arange(-(nx - 1), 2 * ((nx + 1) \div 2), 2)
    IN  [i \in DOMAIN ix |-> ix[i] * dx]

\* a slip in the even branch: integer division -(nx-1)/2 instead of /2.
make_grid_coordinate_IntDiv(nx, dx) ==
    LET ix == IF nx % 2 = 1
              THEN arange(2 * (-(nx \div 2)), 2 * (nx \div 2 + 1), 2)
              ELSE arange(2 * ((-(nx - 1)) \div 2), 2 * ((nx + 1) \div 2), 2)
    IN  [i \in DOMAIN ix |-> ix[i] * dx]

\* ix is doubled: -(nx//2) becomes 2*(-(nx \div 2)), -(nx-1)/2. becomes
\* -(nx-1), (nx+1)//2. becomes 2*((nx+1) \div 2), and the step 1 becomes 2
make_grid_coordinate(nx, dx) ==
    LET ix == IF nx % 2 = 1
              THEN arange(2 * (-(nx \div 2)), 2 * (nx \div 2 + 1), 2)
              ELSE arange(-(nx - 1), 2 * ((nx + 1) \div 2), 2)
    IN  [i \in DOMAIN ix |-> ix[i] * dx]

AxisIdle == axis_pc = "idle" /\ arg_n = 0 /\ arg_d = 0 /\ axis_out = << >>

AxisInit ==
    /\ axis_pc = "call"
    /\ arg_n \in 1..MaxN
    /\ arg_d \in Spacings
    /\ axis_out = << >>

CallMakeGridCoordinate ==
    /\ axis_pc = "call"
    /\ axis_out' = make_grid_coordinate(arg_n, arg_d)
    /\ axis_pc' = "done"
    /\ UNCHANGED <<arg_n, arg_d, pipeVars, meanVars>>

---------------------------------------------------------------------------
(* The dataset (xarray) and the projections (pyproj) *)

\* "+a=6370000": the radius of WRF's spherical earth, in metres
SphereRadius == 6370000

\* a pyproj.Proj object, by the parameters of its definition string
Proj(kind, lat_1, lat_2, lat_0, lon_0, a) ==
    [pytype |-> "Proj", proj |-> kind, lat_1 |-> lat_1, lat_2 |-> lat_2,
     lat_0 |-> lat_0, lon_0 |-> lon_0, a |-> a]

\* the exact axis of n points spaced d and centred on 0 (doubled), from which
\* the dataset's own lat/lon arrays are laid out
DatasetAxis(n, d) == [i \in 1..n |-> (2 * (i - 1) - (n - 1)) * d]

\* a stored (Time, south_north, west_east) coordinate pair of the dataset:
\* the geographic image of the exact grid, each cell off by e per column
\* (longitude) and e per row (latitude).  One time step is stored.
DatasetLon(xs, ys, lon_0, e) ==
    << [r \in 1..Len(ys) |-> [c \in 1..Len(xs) |-> xs[c] + lon_0 + e * c]] >>
DatasetLat(xs, ys, lat_0, e) ==
    << [r \in 1..Len(ys) |-> [c \in 1..Len(xs) |-> ys[r] + lat_0 + e * r]] >>

\* an xarray dataset opened from a wrfout file: the global attributes and the
\* coordinate variables the pipeline reads
Dataset(mp, nx, ny, dx, dy, e) ==
    LET xm == DatasetAxis(nx, dx)
        ym == DatasetAxis(ny, dy)
        xs == DatasetAxis(nx + 1, dx)
        ys == DatasetAxis(ny + 1, dy)
    IN  [MAP_PROJ |-> mp, CEN_LON |-> 10, CEN_LAT |-> 52,
         TRUELAT1 |-> 30, TRUELAT2 |-> 60, DX |-> dx, DY |-> dy,
         WEST_EAST_PATCH_END_UNSTAG |-> nx,
         SOUTH_NORTH_PATCH_END_UNSTAG |-> ny,
         XLONG |-> DatasetLon(xm, ym, 10, e), XLAT |-> DatasetLat(xm, ym, 52, e),
         XLONG_U |-> DatasetLon(xs, ym, 10, e), XLAT_U |-> DatasetLat(xs, ym, 52, e),
         XLONG_V |-> DatasetLon(xm, ys, 10, e), XLAT_V |-> DatasetLat(xm, ys, 52, e)]

\* DataArray.isel(Time=0).values
isel_Time0(v) == v[1]

\* pyproj.transform(p1, p2, x, y), elementwise over two arrays of one shape;
\* it returns new arrays.  The geodesy is a stand-in: a projection is a shift
\* by its centre (lon_0, lat_0), so the forward and the inverse transform are
\* each other's inverse and neither is the identity.
transform(p1, p2, x, y) ==
    << [r \in DOMAIN x |-> [c \in DOMAIN x[r] |-> x[r][c] + p1.lon_0 - p2.lon_0]],
       [r \in DOMAIN y |-> [c \in DOMAIN y[r] |-> y[r][c] + p1.lat_0 - p2.lat_0]] >>

---------------------------------------------------------------------------
(* get_wrf_proj *)

\* a slip in the test of the projection kind: every code from 1 on is accepted
get_wrf_proj_AtLeast1(w) ==
    IF w.MAP_PROJ >= 1
    THEN [raised |-> "none",
          value |-> Proj("lcc", w.TRUELAT1, w.TRUELAT2, w.CEN_LAT, w.CEN_LON, SphereRadius)]
    ELSE [raised |-> "ValueError", value |-> PyNone]

get_wrf_proj(w) ==
    IF w.MAP_PROJ = 1
    THEN [raised |-> "none",
          value |-> Proj("lcc", w.TRUELAT1, w.TRUELAT2, w.CEN_LAT, w.CEN_LON, SphereRadius)]
    ELSE [raised |-> "ValueError", value |-> PyNone]

---------------------------------------------------------------------------
(* get_wrf_grid_params, reconstruct_grid, load_wrf_grids *)

get_wrf_grid_params(w) ==
    PyDict([dx |-> w.DX, dy |-> w.DY,
            nx |-> w.WEST_EAST_PATCH_END_UNSTAG,
            ny |-> w.SOUTH_NORTH_PATCH_END_UNSTAG])

\* coords is bound to the expression {...}, with its trailing comma: a tuple
\* of one element, the dict
reconstruct_grid(grid_params) ==
    LET gp == grid_params.items
        x == make_grid_coordinate(gp.nx, gp.dx)
        y == make_grid_coordinate(gp.ny, gp.dy)
        x_stag == make_grid_coordinate(gp.nx + 1, gp.dx)
        y_stag == make_grid_coordinate(gp.nx + 1, gp.dx)
        mass_grid == meshgrid(x, y)
        u_grid == meshgrid(x_stag, y)
        v_grid == meshgrid(x, y_stag)
        coords == PyTuple(<< PyDict([x |-> x, y |-> y,
                                     x_stag |-> x_stag, y_stag |-> y_stag]) >>)
        grids == PyDict([mass_grid |-> mass_grid, u_grid |-> u_grid,
                         v_grid |-> v_grid])
    IN  << coords, grids >>

load_wrf_grids(w) ==
    PyDict([mass_grid |-> << isel_Time0(w.XLONG), isel_Time0(w.XLAT) >>,
            u_grid |-> << isel_Time0(w.XLONG_U), isel_Time0(w.XLAT_U) >>,
            v_grid |-> << isel_Time0(w.XLONG_V), isel_Time0(w.XLAT_V) >>])

---------------------------------------------------------------------------
(* check_grid_consistency *)

\* the grid variants, in the order of the loop
Labels == << "mass_grid", "u_grid", "v_grid" >>

RECURSIVE SumSeq(_)
SumSeq(s) == IF Len(s) = 0 THEN 0 ELSE s[1] + SumSeq(Tail(s))

\* the elements of a 2D array in row-major order
flatten(A) ==
    LET cols == shape(A)[2]
    IN  [k \in 1..(shape(A)[1] * cols) |-> A[((k - 1) \div cols) + 1][((k - 1) % cols) + 1]]

\* the elementwise difference of two arrays of one shape
minus(A, B) == [r \in DOMAIN A |-> [c \in DOMAIN A[r] |-> A[r][c] - B[r][c]]]

\* ndarray.max()
amax(A) ==
    LET f == flatten(A)
    IN  CHOOSE m \in {f[k] : k \in DOMAIN f} : \A k \in DOMAIN f : f[k] <= m

\* np.unravel_index(A.argmax(), shp): the first maximum in row-major order
argmax_index(A, shp) ==
    LET f == flatten(A)
        m == amax(A)
        k == (CHOOSE i \in DOMAIN f : f[i] = m /\ (\A j \in 1..(i - 1) : f[j] # m)) - 1
    IN  << k \div shp[2], k % shp[2] >>

\* what print_diffs prints; a mean is kept as the pair (sum, size)
print_diffs(xt, yt, x2, y2) ==
    LET dlon == minus(xt, x2)
        dlat == minus(yt, y2)
    IN  [lon_sum |-> SumSeq(flatten(dlon)),
         lat_sum |-> SumSeq(flatten(dlat)),
         lon_mean |-> << SumSeq(flatten(dlon)), Len(flatten(dlon)) >>,
         lat_mean |-> << SumSeq(flatten(dlat)), Len(flatten(dlat)) >>,
         lon_max |-> amax(dlon), lon_argmax |-> argmax_index(dlon, shape(xt)),
         lat_max |-> amax(dlat), lat_argmax |-> argmax_index(dlat, shape(yt))]

\* the key under which the loop body fetches its two grids, for the loop's
\* label grid
GridFetched(grid) == "mass_grid"

\* one pass of the loop body over (x1, y1) and (x2, y2): the two blocks it
\* prints under the label grid, or the ValueError of an elementwise
\* difference of arrays whose shapes differ
compare_grids(grid, x1, y1, x2, y2, proj1, proj2) ==
    IF shape(x1) # shape(x2) \/ shape(y1) # shape(y2)
    THEN [raised |-> "ValueError", lines |-> << >>]
    ELSE LET fwd == transform(proj1, proj2, x1, y1)
             inv == transform(proj2, proj1, x2, y2)
         IN  [raised |-> "none",
              lines |-> << [grid |-> grid, direction |-> "proj1 to proj2",
                            diffs |-> print_diffs(fwd[1], fwd[2], x2, y2)],
                           [grid |-> grid, direction |-> "proj2 to proj1",
                            diffs |-> print_diffs(inv[1], inv[2], x1, y1)] >>]

---------------------------------------------------------------------------
(* reproduce_wrf_grid, one action per statement *)

PipeIdle ==
    /\ pc = "idle" /\ wrfout = PyNone
    /\ proj_wrf_lcc = PyNone /\ proj_wgs84 = PyNone /\ proj_sll = PyNone
    /\ grid_params_wrf = PyNone /\ coords_peter = PyNone /\ grids_peter = PyNone
    /\ grids_wrfout = PyNone /\ grid_i = 0 /\ report = << >>
    /\ error = "none" /\ result = PyNone

PipeInit ==
    /\ pc = "get_wrf_proj"
    /\ wrfout \in {Dataset(mp, nx, ny, dx, dy, e) :
                     mp \in 0..MaxMapProj, nx \in 1..MaxGrid, ny \in 1..MaxGrid,
                     dx \in GridSpacings, dy \in GridSpacings, e \in 0..MaxMismatch}
    /\ proj_wrf_lcc = PyNone /\ proj_wgs84 = PyNone /\ proj_sll = PyNone
    /\ grid_params_wrf = PyNone /\ coords_peter = PyNone /\ grids_peter = PyNone
    /\ grids_wrfout = PyNone /\ grid_i = 0 /\ report = << >>
    /\ error = "none" /\ result = PyNone

\* a handler that swallows the exception and goes on without a projection
GetWrfProj_Swallow ==
    /\ pc = "get_wrf_proj"
    /\ proj_wrf_lcc' = get_wrf_proj(wrfout).value
    /\ pc' = "make_projs"
    /\ UNCHANGED <<wrfout, proj_wgs84, proj_sll, grid_params_wrf, coords_peter,
                   grids_peter, grids_wrfout, grid_i, report, error, result,
                   axisVars, meanVars>>

\* proj_wrf_lcc = get_wrf_proj(wrfout); its exception leaves the function
GetWrfProj ==
    /\ pc = "get_wrf_proj"
    /\ LET r == get_wrf_proj(wrfout)
       IN  IF r.raised # "none"
           THEN /\ error' = r.raised
                /\ pc' = "raised"
                /\ UNCHANGED proj_wrf_lcc
           ELSE /\ proj_wrf_lcc' = r.value
                /\ pc' = "make_projs"
                /\ UNCHANGED error
    /\ UNCHANGED <<wrfout, proj_wgs84, proj_sll, grid_params_wrf, coords_peter,
                   grids_peter, grids_wrfout, grid_i, report, result,
                   axisVars, meanVars>>

\* proj_wgs84 = Proj("+init=EPSG:4326"); proj_sll = Proj("+proj=latlong +a=6370 ...")
MakeProjs ==
    /\ pc = "make_projs"
    /\ proj_wgs84' = Proj("latlong", 0, 0, 0, 0, 6378137)
    /\ proj_sll' = Proj("latlong", 0, 0, 0, 0, 6370)
    /\ pc' = "get_wrf_grid_params"
    /\ UNCHANGED <<wrfout, proj_wrf_lcc, grid_params_wrf, coords_peter,
                   grids_peter, grids_wrfout, grid_i, report, error, result,
                   axisVars, meanVars>>

GetWrfGridParams ==
    /\ pc = "get_wrf_grid_params"
    /\ grid_params_wrf' = get_wrf_grid_params(wrfout)
    /\ pc' = "reconstruct_grid"
    /\ UNCHANGED <<wrfout, proj_wrf_lcc, proj_wgs84, proj_sll, coords_peter,
                   grids_peter, grids_wrfout, grid_i, report, error, result,
                   axisVars, meanVars>>

ReconstructGrid ==
    /\ pc = "reconstruct_grid"
    /\ coords_peter' = reconstruct_grid(grid_params_wrf)[1]
    /\ grids_peter' = reconstruct_grid(grid_params_wrf)[2]
    /\ pc' = "load_wrf_grids"
    /\ UNCHANGED <<wrfout, proj_wrf_lcc, proj_wgs84, proj_sll, grid_params_wrf,
                   grids_wrfout, grid_i, report, error, result,
                   axisVars, meanVars>>

LoadWrfGrids ==
    /\ pc = "load_wrf_grids"
    /\ grids_wrfout' = load_wrf_grids(wrfout)
    /\ grid_i' = 1
    /\ pc' = "check_grid_consistency"
    /\ UNCHANGED <<wrfout, proj_wrf_lcc, proj_wgs84, proj_sll, grid_params_wrf,
                   coords_peter, grids_peter, report, error, result,
                   axisVars, meanVars>>

\* a transform that writes its result into the arrays it was given
CheckGrid_InPlace ==
    /\ pc = "check_grid_consistency"
    /\ LET grid == Labels[grid_i]
           g1 == grids_peter.items[GridFetched(grid)]
           g2 == grids_wrfout.items[GridFetched(grid)]
           r == compare_grids(grid, g1[1], g1[2], g2[1], g2[2],
                              proj_wrf_lcc, proj_wgs84)
       IN  /\ report' = report \o r.lines
           /\ grids_peter' =
                PyDict([grids_peter.items EXCEPT ![GridFetched(grid)] =
                          transform(proj_wrf_lcc, proj_wgs84, g1[1], g1[2])])
           /\ grid_i' = grid_i + 1
           /\ pc' = IF grid_i = Len(Labels) THEN "return" ELSE pc
    /\ UNCHANGED <<wrfout, proj_wrf_lcc, proj_wgs84, proj_sll, grid_params_wrf,
                   coords_peter, grids_wrfout, error, result,
                   axisVars, meanVars>>

\* one pass of the loop of check_grid_consistency(grids_peter, grids_wrfout,
\* proj_wrf_lcc, proj_wgs84)
CheckGrid ==
    /\ pc = "check_grid_consistency"
    /\ LET grid == Labels[grid_i]
           g1 == grids_peter.items[GridFetched(grid)]
           g2 == grids_wrfout.items[GridFetched(grid)]
           r == compare_grids(grid, g1[1], g1[2], g2[1], g2[2],
                              proj_wrf_lcc, proj_wgs84)
       IN  IF r.raised # "none"
           THEN /\ error' = r.raised
                /\ pc' = "raised"
                /\ UNCHANGED <<report, grid_i>>
           ELSE /\ report' = report \o r.lines
                /\ grid_i' = grid_i + 1
                /\ pc' = IF grid_i = Len(Labels) THEN "return" ELSE pc
                /\ UNCHANGED error
    /\ UNCHANGED <<wrfout, proj_wrf_lcc, proj_wgs84, proj_sll, grid_params_wrf,
                   coords_peter, grids_peter, grids_wrfout, result,
                   axisVars, meanVars>>

\* return coords_peter, grids_peter
Return ==
    /\ pc = "return"
    /\ result' = PyTuple(<< coords_peter, grids_peter >>)
    /\ pc' = "returned"
    /\ UNCHANGED <<wrfout, proj_wrf_lcc, proj_wgs84, proj_sll, grid_params_wrf,
                   coords_peter, grids_peter, grids_wrfout, grid_i, report, error,
                   axisVars, meanVars>>

---------------------------------------------------------------------------
(* weighted_nanmean(x, weights=None, axis=None), on 2D arrays.  An array    *)
(* element is a record: a number [isnan |-> FALSE, v |-> n] or NaN.  A      *)
(* quotient a/b is kept as the pair (a, b); 0/0 is numpy's nan.             *)

NaN == [isnan |-> TRUE, v |-> 0]
Num(n) == [isnan |-> FALSE, v |-> n]
PyInt(k) == [pytype |-> "int", v |-> k]
\* an ndarray of weights: data is a sequence (ndim 1) or a sequence of rows (ndim 2)
NdArray(ndim, data) == [pytype |-> "ndarray", ndim |-> ndim, data |-> data]

\* ndarray.shape of a weights array
wshape(w) == IF w.ndim = 1 THEN << Len(w.data) >> ELSE shape(w.data)

\* s[k] with Python's indexing: from 0, a negative k counts from the end
pyindex(s, k) == IF k >= 0 THEN s[k + 1] ELSE s[Len(s) + k + 1]
\* s[k] = val
pysetitem(s, k, val) ==
    [s EXCEPT ![IF k >= 0 THEN k + 1 ELSE Len(s) + k + 1] = val]

\* np.ones(shp) for a 2D shape
ones(shp) == NdArray(2, [i \in 1..shp[1] |-> [j \in 1..shp[2] |-> 1]])

\* ndarray.reshape(shp) of a 1D array to a 2D shape of the same size
reshape(w, shp) ==
    NdArray(2, [i \in 1..shp[1] |-> [j \in 1..shp[2] |-> w.data[(i - 1) * shp[2] + j]]])

\* np.tile(w, reps) of a 2D array
tile(w, reps) ==
    LET rows == shape(w.data)[1]
        cols == shape(w.data)[2]
    IN  NdArray(2, [i \in 1..(rows * reps[1]) |->
                      [j \in 1..(cols * reps[2]) |->
                         w.data[((i - 1) % rows) + 1][((j - 1) % cols) + 1]]])

\* Python's truth value of axis: None and 0 are false
truthy(axis) == axis.pytype = "int" /\ axis.v # 0

\* np.sum(weights*x)/np.sum(weights) after both lost the cells where x is NaN
masked_quotient(weights, x) ==
    LET fx == flatten(x)
        fw == flatten(weights.data)
        keep == {k \in DOMAIN fx : ~fx[k].isnan}
        wx == [k \in DOMAIN fx |-> IF k \in keep THEN fw[k] * fx[k].v ELSE 0]
        ww == [k \in DOMAIN fx |-> IF k \in keep THEN fw[k] ELSE 0]
    IN  << SumSeq(wx), SumSeq(ww) >>

weighted_nanmean(x, weights_in, axis) ==
    LET w0 == IF weights_in.pytype = "NoneType" THEN ones(shape(x)) ELSE weights_in
        first_assert ==
            IF axis.pytype = "NoneType"
            THEN wshape(w0) = shape(x)
            ELSE w0.ndim = 1 /\ Len(w0.data) = pyindex(shape(x), axis.v)
        weights_shape == pysetitem([i \in 1..Len(shape(x)) |-> 1], axis.v,
                                   pyindex(shape(x), axis.v))
        tile_shape == pysetitem(shape(x), axis.v, 1)
        w1 == IF truthy(axis) /\ Len(shape(x)) # 1
              THEN tile(reshape(w0, weights_shape), tile_shape)
              ELSE w0
    IN  IF ~first_assert
        THEN [raised |-> IF axis.pytype = "NoneType"
                         THEN "AssertionError: weights should have shape x or axis must be specified"
                         ELSE "AssertionError: weights should be 1d with same length as specified axis",
              value |-> << 0, 0 >>]
        ELSE IF wshape(w1) # shape(x)
        THEN [raised |-> "AssertionError: I messed up", value |-> << 0, 0 >>]
        ELSE [raised |-> "none", value |-> masked_quotient(w1, x)]

\* nanmean(x): np.sum(x)/float(len(x)) over the cells that are not NaN
nanmean(x) ==
    LET fx == flatten(x)
        kept == [k \in DOMAIN fx |-> IF fx[k].isnan THEN 0 ELSE fx[k].v]
    IN  << SumSeq(kept), Cardinality({k \in DOMAIN fx : ~fx[k].isnan}) >>

\* the verification array of the self-test: s with its k-th element written
\* w[k] times
RECURSIVE repeat(_, _)
repeat(s, w) ==
    IF Len(s) = 0 THEN << >>
    ELSE [i \in 1..w[1] |-> s[1]] \o repeat(Tail(s), Tail(w))
\* x with each slice along axis (0: rows, 1: columns) written w[k] times
repeat_slices(x, w, axis) ==
    IF axis = 0 THEN repeat(x, w) ELSE [r \in DOMAIN x |-> repeat(x[r], w)]

\* the test arrays: np.arange(rows*cols) reshaped to (rows, cols), with NaN
\* written into the cells of nans
TestArray(rows, cols, nans) ==
    [i \in 1..rows |-> [j \in 1..cols |->
        IF << i, j >> \in nans THEN NaN ELSE Num((i - 1) * cols + (j - 1))]]

TestArrays ==
    UNION { { TestArray(rows, cols, nans) :
                nans \in SUBSET ((1..rows) \X (1..cols)) } :
            rows \in 1..MaxDim, cols \in 1..MaxDim }

TestWeights ==
    {PyNone} \cup
    UNION { { NdArray(1, w) : w \in [1..len -> 1..MaxWeight] } : len \in 1..MaxDim }

\* None and every valid axis index of a 2D array
TestAxes == {PyNone} \cup {PyInt(k) : k \in (-2)..1}

MeanIdle ==
    /\ mean_pc = "idle" /\ mean_x = << >> /\ mean_weights = PyNone
    /\ mean_axis = PyNone /\ mean_result = PyNone

MeanInit ==
    /\ mean_pc = "call"
    /\ mean_x \in TestArrays
    /\ mean_weights \in TestWeights
    /\ mean_axis \in TestAxes
    /\ mean_result = PyNone

CallWeightedNanmean ==
    /\ mean_pc = "call"
    /\ mean_result' = weighted_nanmean(mean_x, mean_weights, mean_axis)
    /\ mean_pc' = "done"
    /\ UNCHANGED <<mean_x, mean_weights, mean_axis, axisVars, pipeVars>>

---------------------------------------------------------------------------
(* Specifications *)

\* reproduce_wrf_grid(wrfout) run on one dataset
Init == PipeInit /\ AxisIdle /\ MeanIdle
Next ==
    \/ GetWrfProj
    \/ MakeProjs
    \/ GetWrfGridParams
    \/ ReconstructGrid
    \/ LoadWrfGrids
    \/ CheckGrid
    \/ Return
Spec == Init /\ [][Next]_vars

\* make_grid_coordinate(n, d) called once
InitAxis == AxisInit /\ PipeIdle /\ MeanIdle
NextAxis == CallMakeGridCoordinate
SpecAxis == InitAxis /\ [][NextAxis]_vars

\* weighted_nanmean(x, weights, axis) called once
InitMean == MeanInit /\ AxisIdle /\ PipeIdle
NextMean == CallWeightedNanmean
SpecMean == InitMean /\ [][NextMean]_vars

---------------------------------------------------------------------------
(* Properties.  Axis values are doubled, so a spacing d shows as 2*d.       *)

\* the states of reproduce_wrf_grid after reconstruct_grid has returned
AfterReconstruct ==
    pc \in {"load_wrf_grids", "check_grid_consistency", "return", "returned"}
\* the states of reproduce_wrf_grid after load_wrf_grids has returned
AfterLoad == pc \in {"check_grid_consistency", "return", "returned"}
\* the dict of axes that reconstruct_grid built (the element of coords)
BuiltAxes == coords_peter.items[1].items

\* C1: for every n >= 1 and every positive spacing d, the axis of
\* make_grid_coordinate(n, d) has exactly n points, is strictly increasing,
\* and for odd n is symmetric about zero: axis[i] = -axis[n-1-i].
C1_AxisCountOrderSymmetry ==
    axis_pc = "done" =>
        /\ Len(axis_out) = arg_n
        /\ \A i \in 1..(arg_n - 1) : axis_out[i] < axis_out[i + 1]
        /\ arg_n % 2 = 1 =>
             \A i \in 1..arg_n : axis_out[i] = -axis_out[arg_n + 1 - i]

\* C1 witness: an odd axis of seven points has been built, and its ends mirror
C1_Witness ==
    /\ axis_pc = "done" /\ arg_n = 7 /\ arg_d = 1500
    /\ Len(axis_out) = 7 /\ axis_out[1] = -9000 /\ axis_out[7] = 9000

\* C5: for every n >= 1 of either parity the i-th element (from 0) of the axis
\* is (i - (n-1)/2) * d; nx=4, dx=1000 gives [-1500, -500, 500, 1500], ny=3,
\* dy=2000 gives [-2000, 0, 2000], nx=5, dx=1000 gives [-2000, ..., 2000].
C5_AxisClosedForm ==
    axis_pc = "done" =>
        /\ DOMAIN axis_out = 1..arg_n
        /\ \A i \in 1..arg_n : axis_out[i] = (2 * (i - 1) - (arg_n - 1)) * arg_d
        /\ (arg_n = 4 /\ arg_d = 1000) => axis_out = << -3000, -1000, 1000, 3000 >>
        /\ (arg_n = 3 /\ arg_d = 2000) => axis_out = << -4000, 0, 4000 >>
        /\ (arg_n = 5 /\ arg_d = 1000)
             => axis_out = << -4000, -2000, 0, 2000, 4000 >>

\* C5 witness: the even axis of the end-to-end scenario has been built
C5_Witness ==
    /\ axis_pc = "done" /\ arg_n = 4 /\ arg_d = 1000
    /\ axis_out = << -3000, -1000, 1000, 3000 >>

\* C2: reconstruct_grid builds each staggered axis from its own direction:
\* x_stag has nx+1 points spaced dx and y_stag has ny+1 points spaced dy.
C2_StaggeredAxesOwnDirection ==
    AfterReconstruct =>
        LET gp == grid_params_wrf.items
            EvenlySpaced(s, step) ==
                \A i \in 1..(Len(s) - 1) : s[i + 1] - s[i] = step
        IN  /\ Len(BuiltAxes.x_stag) = gp.nx + 1
            /\ EvenlySpaced(BuiltAxes.x_stag, 2 * gp.dx)
            /\ Len(BuiltAxes.y_stag) = gp.ny + 1
            /\ EvenlySpaced(BuiltAxes.y_stag, 2 * gp.dy)

\* C3: the meshgrids of reconstruct_grid have the shapes (rows, columns)
\* mass_grid (ny, nx), u_grid (ny, nx+1), v_grid (ny+1, nx), both arrays of a
\* pair alike.
C3_MeshgridShapes ==
    AfterReconstruct =>
        LET gp == grid_params_wrf.items
            g == grids_peter.items
        IN  /\ shape(g.mass_grid[1]) = << gp.ny, gp.nx >>
            /\ shape(g.mass_grid[2]) = << gp.ny, gp.nx >>
            /\ shape(g.u_grid[1]) = << gp.ny, gp.nx + 1 >>
            /\ shape(g.u_grid[2]) = << gp.ny, gp.nx + 1 >>
            /\ shape(g.v_grid[1]) = << gp.ny + 1, gp.nx >>
            /\ shape(g.v_grid[2]) = << gp.ny + 1, gp.nx >>

\* C4: get_wrf_proj raises ValueError for every MAP_PROJ code other than 1,
\* and for MAP_PROJ = 1 it raises nothing and returns a projection object.
C4_UnsupportedProjectionRaises ==
    pc # "get_wrf_proj" =>
        IF wrfout.MAP_PROJ = 1
        THEN /\ error = "none" /\ pc # "raised"
             /\ proj_wrf_lcc.pytype = "Proj" /\ proj_wrf_lcc.proj = "lcc"
        ELSE /\ pc = "raised" /\ error = "ValueError"
             /\ proj_wrf_lcc.pytype = "NoneType"

\* C4 witness: a dataset with MAP_PROJ = 6 has been refused
C4_Witness == pc = "raised" /\ wrfout.MAP_PROJ = 6 /\ error = "ValueError"

\* C6: the first value returned by reconstruct_grid is a mapping with exactly
\* the keys x, y, x_stag, y_stag, each bound to its axis; the second is a
\* mapping with exactly the keys mass_grid, u_grid, v_grid.
C6_CoordsIsMapping ==
    AfterReconstruct =>
        /\ coords_peter.pytype = "dict"
        /\ DOMAIN coords_peter.items = {"x", "y", "x_stag", "y_stag"}
        /\ coords_peter.items.x
             = make_grid_coordinate(grid_params_wrf.items.nx, grid_params_wrf.items.dx)
        /\ grids_peter.pytype = "dict"
        /\ DOMAIN grids_peter.items = {"mass_grid", "u_grid", "v_grid"}

\* C7: check_grid_consistency reports a forward and an inverse comparison for
\* each of mass_grid, u_grid, v_grid, in that order, and the comparison under
\* a label is computed from that label's reconstructed and native grids.
C7_ReportUsesOwnGrid ==
    AfterLoad =>
        /\ pc \in {"return", "returned"} => Len(report) = 2 * Len(Labels)
        /\ \A i \in 1..Len(Labels) :
             Len(report) >= 2 * i =>
               LET g1 == grids_peter.items[Labels[i]]
                   g2 == grids_wrfout.items[Labels[i]]
                   own == compare_grids(Labels[i], g1[1], g1[2], g2[1], g2[2],
                                        proj_wrf_lcc, proj_wgs84)
               IN  /\ own.raised = "none"
                   /\ << report[2 * i - 1], report[2 * i] >> = own.lines

\* C8: when MAP_PROJ is not 1, reproduce_wrf_grid fails fast: the ValueError
\* leaves it before any grid parameter is read, any grid is reconstructed, any
\* native array is loaded or any report line is emitted, and nothing is
\* returned.
C8_FailFast ==
    wrfout.MAP_PROJ # 1 =>
        /\ pc \in {"get_wrf_proj", "raised"}
        /\ pc = "raised" => error = "ValueError"
        /\ grid_params_wrf.pytype = "NoneType"
        /\ coords_peter.pytype = "NoneType"
        /\ grids_peter.pytype = "NoneType"
        /\ grids_wrfout.pytype = "NoneType"
        /\ report = << >>
        /\ result.pytype = "NoneType"

\* C8 witness: the run on a dataset with MAP_PROJ = 2 has ended in the error,
\* with nothing read, built or printed
C8_Witness ==
    /\ pc = "raised" /\ wrfout.MAP_PROJ = 2
    /\ grid_params_wrf.pytype = "NoneType" /\ report = << >>

\* C9: for an LCC dataset the value returned by reproduce_wrf_grid is the
\* (coords, grids) pair reconstruct_grid made from the extracted parameters;
\* the consistency check changes neither the reconstructed nor the native
\* grids nor the return value, and raises nothing however large the mismatch.
C9_CheckIsDiagnosticOnly ==
    wrfout.MAP_PROJ = 1 =>
        /\ error = "none" /\ pc # "raised"
        /\ AfterReconstruct =>
             << coords_peter, grids_peter >>
                = reconstruct_grid(get_wrf_grid_params(wrfout))
        /\ AfterLoad => grids_wrfout = load_wrf_grids(wrfout)
        /\ pc = "returned" =>
             /\ Len(report) = 2 * Len(Labels)
             /\ result = PyTuple(reconstruct_grid(get_wrf_grid_params(wrfout)))

\* C9 witness: a run on a dataset whose arrays are off by the largest offset
\* has printed a nonzero mismatch and returned
C9_Witness ==
    /\ pc = "returned" /\ wrfout.MAP_PROJ = 1
    /\ Len(report) = 6 /\ report[1].diffs.lon_sum < 0
    /\ report[1].diffs.lon_max = -MaxMismatch
    /\ result.items[2] = grids_peter

\* C10: for a 2D x, every valid axis a (a = 0 included) and every 1D w with
\* len(w) = x.shape[a], weighted_nanmean passes its assertions and returns
\* sum(w[k]*x)/sum(w[k]) over the cells that are not NaN, which is the
\* NaN-ignoring mean of x with each slice along a written w[k] times.
C10_WeightedAlongAnyAxis ==
    ( /\ mean_pc = "done"
      /\ mean_axis.pytype = "int"
      /\ mean_weights.pytype = "ndarray"
      /\ mean_weights.ndim = 1
      /\ Len(mean_weights.data) = pyindex(shape(mean_x), mean_axis.v) )
    => LET a == IF mean_axis.v >= 0 THEN mean_axis.v ELSE mean_axis.v + 2
           w == mean_weights.data
           k(cell) == IF a = 0 THEN cell[1] ELSE cell[2]
           wx == [r \in DOMAIN mean_x |-> [c \in 1..shape(mean_x)[2] |->
                    IF mean_x[r][c].isnan THEN 0 ELSE w[k(<< r, c >>)] * mean_x[r][c].v]]
           ww == [r \in DOMAIN mean_x |-> [c \in 1..shape(mean_x)[2] |->
                    IF mean_x[r][c].isnan THEN 0 ELSE w[k(<< r, c >>)]]]
       IN  /\ mean_result.raised = "none"
           /\ mean_result.value = << SumSeq(flatten(wx)), SumSeq(flatten(ww)) >>
           /\ mean_result.value = nanmean(repeat_slices(mean_x, w, a))

====
